---- MODULE Spec2Model ----
(***************************************************************************)
(* Revision projection engine of doc-transformation.                       *)
(*                                                                         *)
(*   src/docs.py                          apply_tracked_changes_to_chinese_doc *)
(*   src/doc_transformation/docx_processor.py   run_document_processing   *)
(*                                                                         *)
(* A document is an XML tree.  An element is a record                      *)
(*   [tag, a, text, kids]                                                  *)
(* tag  : the local name in the w: namespace ("p", "r", "t", "ins", ...)  *)
(* a    : its attributes, Absent when unset                                *)
(* text : its text, a sequence of one-character strings                    *)
(* kids : its child elements in document order.                            *)
(* Python indices (0-based) are kept as in the source; sequences of the    *)
(* model are 1-based, so a Python index i reads element i + 1.             *)
(***************************************************************************)
EXTENDS Integers, Sequences, FiniteSets, TLC

\* ------------------------------------------------------------------ bounds
\* Most runs of a target paragraph.
MaxRuns == 3
\* Most characters of a target paragraph's text.
MaxParaLen == 3
\* Most characters of a needle (docs.py: change['chinese_text']).
MaxNeedle == 2

\* ----------------------------------------------------------------- strings
Absent == "absent"
None == -1

Alphabet == {"a", "b"}
Whitespace == {" "}

Min(x, y) == IF x <= y THEN x ELSE y
Max(x, y) == IF x >= y THEN x ELSE y

\* Python s[lo:hi] for 0 <= lo, 0 <= hi (both clamped to len(s)).
Slice(s, lo, hi) == SubSeq(s, Min(lo, Len(s)) + 1, Min(hi, Len(s)))

\* Python s[lo:]
SliceFrom(s, lo) == Slice(s, lo, Len(s))

\* Python s[:hi]
SliceTo(s, hi) == Slice(s, 0, hi)

\* needle occurs in hay at 0-based index i
OccursAt(hay, needle, i) ==
    /\ i >= 0
    /\ i + Len(needle) <= Len(hay)
    /\ SubSeq(hay, i + 1, i + Len(needle)) = needle

\* Python hay.find(needle): the lowest index of an occurrence, or -1.
Find(hay, needle) ==
    LET hits == {i \in 0..Len(hay) : OccursAt(hay, needle, i)}
    IN IF hits = {} THEN -1 ELSE CHOOSE i \in hits : \A j \in hits : i <= j

\* Python needle in hay
Contains(hay, needle) == Find(hay, needle) # -1

RECURSIVE LStrip(_)
LStrip(s) == IF s # <<>> /\ Head(s) \in Whitespace THEN LStrip(Tail(s)) ELSE s

RECURSIVE RStrip(_)
RStrip(s) ==
    IF s # <<>> /\ s[Len(s)] \in Whitespace THEN RStrip(SubSeq(s, 1, Len(s) - 1)) ELSE s

\* Python s.strip()
Strip(s) == RStrip(LStrip(s))

RECURSIVE Concat(_)
\* Python ''.join(parts)
Concat(parts) == IF parts = <<>> THEN <<>> ELSE Head(parts) \o Concat(Tail(parts))

RECURSIVE SumLen(_)
SumLen(parts) == IF parts = <<>> THEN 0 ELSE Len(Head(parts)) + SumLen(Tail(parts))

\* Every string over S of length at most n.
RECURSIVE StringsUpTo(_, _)
StringsUpTo(S, n) ==
    IF n = 0 THEN {<<>>}
    ELSE LET shorter == StringsUpTo(S, n - 1)
         IN shorter \cup {Append(s, c) : s \in shorter, c \in S}

\* ------------------------------------------------------------- XML elements
\* space is xml:space, wspace is w:space.
NoAttrs == [author |-> Absent, date |-> Absent, id |-> Absent,
            space |-> Absent, wspace |-> Absent, val |-> Absent]

Elem(tag, a, text, kids) == [tag |-> tag, a |-> a, text |-> text, kids |-> kids]

\* Python list.insert(pos, x) / lxml parent.insert(pos, x): pos past the end appends.
ListInsert(s, pos, x) ==
    LET p == Min(pos, Len(s))
    IN SubSeq(s, 1, p) \o <<x>> \o SubSeq(s, p + 1, Len(s))

\* s without the element after the one at 0-based index pos
ListRemoveNext(s, pos) == SubSeq(s, 1, pos + 1) \o SubSeq(s, pos + 3, Len(s))

\* s without its element at 0-based index pos
ListRemove(s, pos) == SubSeq(s, 1, pos) \o SubSeq(s, pos + 2, Len(s))

\* The element at a path (a sequence of 1-based child positions) below n.
RECURSIVE At(_, _)
At(n, path) == IF path = <<>> THEN n ELSE At(n.kids[Head(path)], Tail(path))

\* n with the element at path replaced by new.
RECURSIVE ReplaceAt(_, _, _)
ReplaceAt(n, path, new) ==
    IF path = <<>> THEN new
    ELSE [n EXCEPT !.kids[Head(path)] = ReplaceAt(n.kids[Head(path)], Tail(path), new)]

\* lxml getparent(): the path of the parent.
ParentPath(path) == SubSeq(path, 1, Len(path) - 1)

\* xpath './/w:TAG' and findall('.//w:TAG'): the paths of every descendant
\* with that tag, in document order.
RECURSIVE Desc(_, _)
Desc(n, tag) ==
    LET below(i) == LET sub == Desc(n.kids[i], tag)
                    IN [j \in 1..Len(sub) |-> <<i>> \o sub[j]]
        here(i) == IF n.kids[i].tag = tag THEN <<<<i>>>> ELSE <<>>
        upto[i \in 0..Len(n.kids)] ==
            IF i = 0 THEN <<>> ELSE upto[i - 1] \o here(i) \o below(i)
    IN upto[Len(n.kids)]

\* xpath './w:TAG': the paths of the children with that tag, in document order.
Children(n, tag) ==
    LET upto[i \in 0..Len(n.kids)] ==
            IF i = 0 THEN <<>>
            ELSE upto[i - 1] \o (IF n.kids[i].tag = tag THEN <<<<i>>>> ELSE <<>>)
    IN upto[Len(n.kids)]

\* ''.join(n.xpath('.//w:TAG/text()'))
TextOf(n, tag) ==
    LET ps == Desc(n, tag)
    IN Concat([j \in 1..Len(ps) |-> At(n, ps[j]).text])

\* for t in n.xpath('.//w:t'): t.text = text; t.set(xml:space, 'preserve')
SetAllT(n, text) ==
    LET ps == Desc(n, "t")
        step[j \in 0..Len(ps)] ==
            IF j = 0 THEN n
            ELSE ReplaceAt(step[j - 1], ps[j],
                           [At(step[j - 1], ps[j]) EXCEPT !.text = text,
                                                          !.a.space = "preserve"])
    IN step[Len(ps)]

\* ------------------------------------------------------- target documents
\* A run as Word writes it: <w:r><w:rPr val=fmt/><w:t>text</w:t></w:r>.
PlainRun(fmt, text) ==
    Elem("r", NoAttrs, <<>>,
         << Elem("rPr", [NoAttrs EXCEPT !.val = fmt], <<>>, <<>>),
            Elem("t", NoAttrs, text, <<>>) >>)

\* The formatting payload of the j-th run of an input paragraph.
FmtOf(j) == ToString(j)

\* A paragraph of plain runs, with a leading <w:pPr> when withPPr.
Paragraph(withPPr, texts) ==
    Elem("p", NoAttrs, <<>>,
         (IF withPPr THEN <<Elem("pPr", NoAttrs, <<>>, <<>>)>> ELSE <<>>)
         \o [j \in 1..Len(texts) |-> PlainRun(FmtOf(j), texts[j])])

\* A run whose text is held by two <w:t> with a <w:br/> between them; its
\* text, as './/w:t/text()' joined reads it, is first \o second.
BrokenRun(fmt, first, second) ==
    Elem("r", NoAttrs, <<>>,
         << Elem("rPr", [NoAttrs EXCEPT !.val = fmt], <<>>, <<>>),
            Elem("t", NoAttrs, first, <<>>),
            Elem("br", NoAttrs, <<>>, <<>>),
            Elem("t", NoAttrs, second, <<>>) >>)

\* Paragraphs with such a run: alone, or before a plain run.
BrokenParagraphs(withPPr) ==
    LET head == IF withPPr THEN <<Elem("pPr", NoAttrs, <<>>, <<>>)>> ELSE <<>>
    IN { Elem("p", NoAttrs, <<>>, head \o <<BrokenRun(FmtOf(1), <<"a">>, <<"b">>)>>),
         Elem("p", NoAttrs, <<>>,
              head \o <<BrokenRun(FmtOf(1), <<"a">>, <<"b">>),
                        PlainRun(FmtOf(2), <<"a">>)>>) }

\* <w:document><w:body> paragraphs </w:body></w:document>
Document(paras) ==
    Elem("document", NoAttrs, <<>>, <<Elem("body", NoAttrs, <<>>, paras)>>)

\* Every way to cut text into exactly k runs (empty runs allowed).
RECURSIVE Splits(_, _)
Splits(text, k) ==
    IF k = 0 THEN (IF text = <<>> THEN {<<>>} ELSE {})
    ELSE UNION { { <<SubSeq(text, 1, i)>> \o rest :
                     rest \in Splits(SubSeq(text, i + 1, Len(text)), k - 1) } :
                 i \in 0..Len(text) }

\* Every text of at most maxLen characters, cut every way into at most
\* maxRuns runs.
RunTextListsUpTo(maxRuns, maxLen) ==
    UNION { UNION { Splits(text, k) : k \in 0..maxRuns } :
            text \in StringsUpTo(Alphabet, maxLen) }

\* The run texts of the input paragraphs of docs.py.
RunTextLists == RunTextListsUpTo(MaxRuns, MaxParaLen)

\* Scenario A of the specification: runs "Hello " and "world".
HelloRuns ==
    << <<"H", "e", "l", "l", "o", " ">>, <<"w", "o", "r", "l", "d">> >>

\* Runs whose text begins or ends with white space.
SpacedRuns == << <<" ", "a">>, <<"b", " ">> >>

\* One list of runs dealt into one paragraph, or cut into two paragraphs.
DocsOf(texts) ==
    { Document(<<Paragraph(pp, texts)>>) : pp \in BOOLEAN }
    \cup { Document(<<Paragraph(pp, SubSeq(texts, 1, i)),
                      Paragraph(FALSE, SubSeq(texts, i + 1, Len(texts)))>>) :
           pp \in BOOLEAN, i \in 1..(Len(texts) - 1) }

\* The target ("Chinese") documents the runs start from.
TargetDocs ==
    UNION { DocsOf(texts) : texts \in RunTextLists \cup {HelloRuns, SpacedRuns} }

\* ------------------------------------------------------------------ docs.py
\* _create_run(text): a fresh run, no formatting, w:space set when the text
\* has leading or trailing white space.
create_run(text) ==
    Elem("r", NoAttrs, <<>>,
         << Elem("t", [NoAttrs EXCEPT !.wspace =
                          IF Strip(text) # text THEN "preserve" ELSE Absent],
                 text, <<>>) >>)

\* _wrap_tracked_change(change_type, run_element): author and date defaulted;
\* the date is whatever datetime.utcnow() reads ("utcnow").
wrap_tracked_change(change_type, run_element) ==
    Elem(IF change_type = "insert" THEN "ins" ELSE "del",
         [NoAttrs EXCEPT !.author = "AutoScript", !.date = "utcnow"],
         <<>>, <<run_element>>)

\* The loop of lines 107-120 were line 112 to read run_start <= idx <= run_end:
\* a needle that begins a run is taken to begin at the end of the run before.
RECURSIVE LocateLoopLoose(_, _, _, _, _, _)
LocateLoopLoose(run_texts, idx, n, i, current_pos, st) ==
    IF i >= Len(run_texts)
    THEN [start_run_idx |-> st.s, start_offset |-> st.so,
          end_run_idx |-> None, end_offset |-> None]
    ELSE LET run_len == Len(run_texts[i + 1])
             run_start == current_pos
             run_end == current_pos + run_len
             st2 == IF st.s = None /\ run_start <= idx /\ idx <= run_end
                    THEN [s |-> i, so |-> idx - run_start]
                    ELSE st
         IN IF st2.s # None /\ run_start < idx + n /\ idx + n <= run_end
            THEN [start_run_idx |-> st2.s, start_offset |-> st2.so,
                  end_run_idx |-> i, end_offset |-> idx + n - run_start]
            ELSE LocateLoopLoose(run_texts, idx, n, i + 1, current_pos + run_len, st2)

\* The loop of lines 107-120 were line 115 to read idx + len(c_text) < run_end:
\* a needle that ends where a run ends finds no end run.
RECURSIVE LocateLoopShort(_, _, _, _, _, _)
LocateLoopShort(run_texts, idx, n, i, current_pos, st) ==
    IF i >= Len(run_texts)
    THEN [start_run_idx |-> st.s, start_offset |-> st.so,
          end_run_idx |-> None, end_offset |-> None]
    ELSE LET run_len == Len(run_texts[i + 1])
             run_start == current_pos
             run_end == current_pos + run_len
             st2 == IF st.s = None /\ run_start <= idx /\ idx < run_end
                    THEN [s |-> i, so |-> idx - run_start]
                    ELSE st
         IN IF st2.s # None /\ run_start < idx + n /\ idx + n < run_end
            THEN [start_run_idx |-> st2.s, start_offset |-> st2.so,
                  end_run_idx |-> i, end_offset |-> idx + n - run_start]
            ELSE LocateLoopShort(run_texts, idx, n, i + 1, current_pos + run_len, st2)

\* The loop of lines 107-120 from run i on: start_run_idx/start_offset are
\* st.s/st.so (None until found); the result is what the locals hold when the
\* loop ends (by break or by exhausting run_texts).
RECURSIVE LocateLoop(_, _, _, _, _, _)
LocateLoop(run_texts, idx, n, i, current_pos, st) ==
    IF i >= Len(run_texts)
    THEN [start_run_idx |-> st.s, start_offset |-> st.so,
          end_run_idx |-> None, end_offset |-> None]
    ELSE LET run_len == Len(run_texts[i + 1])
             run_start == current_pos
             run_end == current_pos + run_len
             st2 == IF st.s = None /\ run_start <= idx /\ idx < run_end
                    THEN [s |-> i, so |-> idx - run_start]
                    ELSE st
         IN IF st2.s # None /\ run_start < idx + n /\ idx + n <= run_end
            THEN [start_run_idx |-> st2.s, start_offset |-> st2.so,
                  end_run_idx |-> i, end_offset |-> idx + n - run_start]
            ELSE LocateLoop(run_texts, idx, n, i + 1, current_pos + run_len, st2)

\* Lines 101-125: the span of para_text[idx : idx + n] in run coordinates.
\* fallback: the loop found no end run and lines 123-125 ran; raises: those
\* lines index an empty run_texts (IndexError).
Locate(run_texts, idx, n) ==
    LET found == LocateLoop(run_texts, idx, n, 0, 0, [s |-> None, so |-> None])
    IN IF found.end_run_idx # None
       THEN found @@ [fallback |-> FALSE, raises |-> FALSE]
       ELSE IF Len(run_texts) = 0
            THEN found @@ [fallback |-> TRUE, raises |-> TRUE]
            ELSE [found EXCEPT !.end_run_idx = Len(run_texts) - 1,
                               !.end_offset = Len(run_texts[Len(run_texts)])]
                 @@ [fallback |-> TRUE, raises |-> FALSE]

\* Lines 138-148: the text of the runs start_run_idx..end_run_idx that is
\* taken as changed.
changed_text_of(run_texts, sp) ==
    Concat([k \in 1..(sp.end_run_idx - sp.start_run_idx + 1) |->
              LET run_i == sp.start_run_idx + k - 1
                  rt == run_texts[run_i + 1]
              IN IF run_i = sp.start_run_idx THEN SliceFrom(rt, sp.start_offset)
                 ELSE IF run_i = sp.end_run_idx THEN SliceTo(rt, sp.end_offset)
                 ELSE rt])

\* Lines 152-174: the runs start_run_idx..end_run_idx are removed from the
\* parent of the start run and the new runs are inserted at child position
\* start_run_idx of that parent.  runs are paths below p.  parent.remove(x)
\* raises ValueError when x is not a child of parent; the runs before it are
\* gone by then.
splice(p, runs, sp, before_text, changed_text, after_text, c_type) ==
    LET parent == ParentPath(runs[sp.start_run_idx + 1])
        span == (sp.start_run_idx + 1)..(sp.end_run_idx + 1)
        strangers == {j \in span : ParentPath(runs[j]) # parent}
        stop == IF strangers = {} THEN sp.end_run_idx + 2
                ELSE CHOOSE j \in strangers : \A k \in strangers : j <= k
        gone == {runs[j][Len(runs[j])] : j \in {k \in span : k < stop}}
        old == At(p, parent).kids
        kept == SelectSeq([i \in 1..Len(old) |-> [pos |-> i, el |-> old[i]]],
                          LAMBDA x : x.pos \notin gone)
        removed == [i \in 1..Len(kept) |-> kept[i].el]
        insert_pos == sp.start_run_idx
        with_before == IF before_text # <<>>
                       THEN ListInsert(removed, insert_pos, create_run(before_text))
                       ELSE removed
        pos2 == IF before_text # <<>> THEN insert_pos + 1 ELSE insert_pos
        with_changed == ListInsert(with_before, pos2,
                                   wrap_tracked_change(c_type, create_run(changed_text)))
        pos3 == pos2 + 1
        with_after == IF after_text # <<>>
                      THEN ListInsert(with_changed, pos3, create_run(after_text))
                      ELSE with_changed
    IN IF strangers # {}
       THEN [raised |-> TRUE,
             p |-> ReplaceAt(p, parent, [At(p, parent) EXCEPT !.kids = removed])]
       ELSE [raised |-> FALSE,
             p |-> ReplaceAt(p, parent, [At(p, parent) EXCEPT !.kids = with_after])]

\* The locals of one pass of the loop body of lines 86-177 over paragraph p.
\* outcome: "continue" (c_text not in this paragraph), "applied", or "raised"
\* (an exception leaves the function).
NoLocals ==
    [outcome |-> "continue", run_texts |-> <<>>, para_text |-> <<>>, idx |-> None,
     start_run_idx |-> None, start_offset |-> None, end_run_idx |-> None,
     end_offset |-> None, fallback |-> FALSE,
     before_text |-> <<>>, changed_text |-> <<>>, after_text |-> <<>>,
     c_text |-> <<>>, c_type |-> "insert", para |-> None]

\* Lines 86-177 for one paragraph p: the locals, and the paragraph afterwards.
apply_to_paragraph(p, c_text, c_type) ==
    LET runs == Desc(p, "r")
        run_texts == [j \in 1..Len(runs) |-> TextOf(At(p, runs[j]), "t")]
        para_text == Concat(run_texts)
        idx == Find(para_text, c_text)
        sp == Locate(run_texts, idx, Len(c_text))
        base == [NoLocals EXCEPT !.run_texts = run_texts, !.para_text = para_text,
                                 !.idx = idx, !.c_text = c_text, !.c_type = c_type]
        located == [base EXCEPT !.start_run_idx = sp.start_run_idx,
                                !.start_offset = sp.start_offset,
                                !.end_run_idx = sp.end_run_idx,
                                !.end_offset = sp.end_offset,
                                !.fallback = sp.fallback]
    IN IF idx = -1 THEN [locals |-> base, p |-> p]
       ELSE IF sp.raises \/ sp.start_run_idx = None
       THEN \* run_texts[-1] of an empty list, or run_texts[None]
            [locals |-> [located EXCEPT !.outcome = "raised"], p |-> p]
       ELSE LET before_text == SliceTo(run_texts[sp.start_run_idx + 1], sp.start_offset)
                changed_text == changed_text_of(run_texts, sp)
                after_text == SliceFrom(run_texts[sp.end_run_idx + 1], sp.end_offset)
                done == splice(p, runs, sp, before_text, changed_text, after_text, c_type)
            IN [locals |-> [located EXCEPT
                              !.outcome = IF done.raised THEN "raised" ELSE "applied",
                              !.before_text = before_text,
                              !.changed_text = changed_text,
                              !.after_text = after_text],
                p |-> done.p]

\* Lines 80-180 for one change: the paragraphs (paths below root, found once at
\* line 78) are tried in order from the i-th; the first that holds c_text is
\* rewritten and the loop breaks.
RECURSIVE apply_change(_, _, _, _, _)
apply_change(root, paragraphs, i, c_text, c_type) ==
    IF i > Len(paragraphs)
    THEN [root |-> root,
          locals |-> [NoLocals EXCEPT !.c_text = c_text, !.c_type = c_type]]
    ELSE LET r == apply_to_paragraph(At(root, paragraphs[i]), c_text, c_type)
         IN IF r.locals.outcome = "continue"
            THEN apply_change(root, paragraphs, i + 1, c_text, c_type)
            ELSE [root |-> ReplaceAt(root, paragraphs[i], r.p),
                  locals |-> [r.locals EXCEPT !.para = i - 1]]

\* ---------------------------------------------------------------- archives
\* A .docx file is a zip archive: a sequence of entries, each a name (the
\* directory and the file in it) and its content.  The content of
\* word/document.xml is the document tree; any other content is opaque.
Entry(dir, file, data) == [dir |-> dir, file |-> file, data |-> data]

Opaque(bytes) == Elem("bytes", NoAttrs, <<bytes>>, <<>>)

IsDocumentXml(e) == e.dir = "word" /\ e.file = "document.xml"

\* The target file around a document tree.
Docx(doc) ==
    << Entry("", "[Content_Types].xml", Opaque("types")),
       Entry("word", "document.xml", doc),
       Entry("word", "styles.xml", Opaque("styles")) >>

\* Content that fails its CRC check: zip.read of the entry raises BadZipFile.
Corrupt == Opaque("corrupt")

\* A target file whose word/styles.xml is damaged; word/document.xml is sound.
DamagedDocx(doc) ==
    << Entry("", "[Content_Types].xml", Opaque("types")),
       Entry("word", "document.xml", doc),
       Entry("word", "styles.xml", Corrupt) >>

\* zip.read('word/document.xml'): the content of the entry of that name (the
\* last one, were there several).
ReadDocumentXml(archive) ==
    LET hits == {i \in 1..Len(archive) : IsDocumentXml(archive[i])}
    IN archive[CHOOSE i \in hits : \A j \in hits : j <= i].data

\* No file at the path.
NoFile == [exists |-> FALSE, entries |-> <<>>]

\* A file at the path, holding these entries.
File(entries) == [exists |-> TRUE, entries |-> entries]

\* The needles tried: every string within the bound, the empty one included,
\* and the needle of Scenario A.
Needles == StringsUpTo(Alphabet, MaxNeedle) \cup {<<"l", "o", " ", "w", "o">>}

\* An entry of changes_map.
Change(c_text, c_type) == [chinese_text |-> c_text, type |-> c_type]

\* The lists handed in as changes_map: none, any one change, and some of two
\* changes where the second meets what the first left behind.
ChangeMaps ==
    {<<>>}
    \cup {<<Change(t, k)>> : t \in Needles, k \in {"insert", "delete"}}
    \cup { <<Change(<<"a">>, "insert"), Change(<<"a">>, "delete")>>,
           <<Change(<<"a">>, "insert"), Change(<<"a", "b">>, "delete")>>,
           <<Change(<<"b">>, "delete"), Change(<<"a">>, "insert")>>,
           <<Change(<<>>, "insert"), Change(<<"a">>, "delete")>> }

VARIABLES
    chinese,      \* the file at ch_docx_path / chinese_path (never written)
    changes_map,  \* docs.py: the argument changes_map
    d_pc,         \* docs.py: "off", "loop" (line 80), "raised", "done"
    d_tree,       \* docs.py: root, the parsed word/document.xml
    d_n,          \* docs.py: entries of changes_map consumed so far
    d_locals,     \* docs.py: the locals of the last pass of the loop body
    d_out         \* docs.py: the file at output_path

d_vars == <<changes_map, d_pc, d_tree, d_n, d_locals, d_out>>

\* ------------------------------------------------------- source documents
\* A revision marker's attributes as Word writes them.
FullAttrs == [NoAttrs EXCEPT !.author = "Ann", !.date = "2024", !.id = "7"]

\* The attributes a marker may carry: all three, or one or all missing.
MarkerAttrs ==
    { FullAttrs,
      [FullAttrs EXCEPT !.author = Absent],
      [FullAttrs EXCEPT !.date = Absent],
      [FullAttrs EXCEPT !.id = Absent],
      NoAttrs }

TextRun(tag, text) == Elem("r", NoAttrs, <<>>, <<Elem(tag, NoAttrs, text, <<>>)>>)

\* <w:ins ...><w:r><w:t>text</w:t></w:r></w:ins>
InsMarker(a, text) == Elem("ins", a, <<>>, <<TextRun("t", text)>>)

\* <w:del ...><w:r><w:delText>text</w:delText></w:r></w:del>
DelMarker(a, text) == Elem("del", a, <<>>, <<TextRun("delText", text)>>)

\* <w:r><w:ins ...><w:t xml:space="preserve">text</w:t></w:ins></w:r>, the
\* element _create_track_changes_element writes for an insertion (a source
\* that this program wrote).
InsInRun(a, text) ==
    Elem("r", NoAttrs, <<>>,
         <<Elem("ins", a, <<>>,
                <<Elem("t", [NoAttrs EXCEPT !.space = "preserve"], text, <<>>)>>)>>)

\* <w:r><w:del ...><w:delText xml:space="preserve">text</w:delText></w:del></w:r>,
\* the element it writes for a deletion.
DelInRun(a, text) ==
    Elem("r", NoAttrs, <<>>,
         <<Elem("del", a, <<>>,
                <<Elem("delText", [NoAttrs EXCEPT !.space = "preserve"], text, <<>>)>>)>>)

\* The children a source paragraph is built from.
SourceKids ==
    { TextRun("t", <<"a">>), TextRun("t", <<" ">>) }
    \cup { InsMarker(a, <<"b">>) : a \in MarkerAttrs }
    \cup { DelMarker(a, <<"a", " ">>) : a \in {FullAttrs, NoAttrs} }
    \cup { InsMarker(FullAttrs, <<" ">>),
           InsInRun(FullAttrs, <<"b">>),
           DelInRun(FullAttrs, <<"a">>) }

\* Most children of the paragraphs of a source document, all together.
MaxSourceKids == 2

RECURSIVE SeqsUpTo(_, _)
\* Every sequence over S of length at most n.
SeqsUpTo(S, n) ==
    IF n = 0 THEN {<<>>}
    ELSE LET shorter == SeqsUpTo(S, n - 1)
         IN shorter \cup {Append(s, x) : s \in shorter, x \in S}

\* The source ("English") documents: at most MaxSourceKids children, all in
\* one paragraph or cut into two.
SourceDocs ==
    UNION { { Document(<<Elem("p", NoAttrs, <<>>, kids)>>) }
            \cup { Document(<<Elem("p", NoAttrs, <<>>, SubSeq(kids, 1, i)),
                              Elem("p", NoAttrs, <<>>, SubSeq(kids, i + 1, Len(kids)))>>) :
                   i \in 1..(Len(kids) - 1) } :
            kids \in SeqsUpTo(SourceKids, MaxSourceKids) }

\* ------------------------------------------- docx_processor.py: extraction
\* datetime.now().isoformat() when the clock reads k.
isoformat(k) == ToString(k)

\* The values str(uuid.uuid4().int)[:8] may take.
FreshIds == {"u1", "u2"}

\* The last value the clock may read.
MaxClock == 2

\* _get_paragraph_text_with_structure(p_element): runs_info, the child runs
\* with non-empty w:t text.
get_paragraph_text_with_structure(p_element) ==
    LET runs == Children(p_element, "r")
        info == [j \in 1..Len(runs) |->
                   LET run == At(p_element, runs[j])
                   IN [text |-> TextOf(run, "t"),
                       element |-> runs[j],
                       is_insertion |-> Desc(run, "ins") # <<>>,
                       is_deletion |-> Desc(run, "del") # <<>>]]
    IN SelectSeq(info, LAMBDA x : x.text # <<>>)

\* Lines 58-72: original_text_parts (which = "original") and
\* current_text_parts (which = "current").
text_parts(p_element, runs_info, which) ==
    [j \in 1..Len(runs_info) |->
       LET run_info == runs_info[j]
       IN IF run_info.is_deletion
          THEN (IF which = "original"
                THEN TextOf(At(p_element, run_info.element), "delText")
                ELSE <<>>)
          ELSE IF ~run_info.is_insertion THEN run_info.text
          ELSE (IF which = "current" THEN run_info.text ELSE <<>>)]

\* Lines 81-122 for the markers of one kind in paragraph p: a record for each
\* whose stripped text is not empty.  The k-th record made in the whole
\* extraction takes its defaults from nows[k] and uuids[k]; done counts the
\* records made before this call.
records_of(p, para_idx, kind, original, current, nows, uuids, done) ==
    LET tag == IF kind = "insertion" THEN "ins" ELSE "del"
        text_tag == IF kind = "insertion" THEN "t" ELSE "delText"
        marks == Desc(p, tag)
        kept == SelectSeq(marks, LAMBDA m : Strip(TextOf(At(p, m), text_tag)) # <<>>)
    IN [j \in 1..Len(kept) |->
          LET el == At(p, kept[j])
              k == done + j
          IN [type |-> kind,
              text |-> Strip(TextOf(el, text_tag)),
              original_context |-> original,
              current_context |-> current,
              paragraph_index |-> para_idx,
              author |-> IF el.a.author # Absent THEN el.a.author ELSE "Unknown",
              date |-> IF el.a.date # Absent THEN el.a.date ELSE isoformat(nows[k]),
              change_id |-> IF el.a.id # Absent THEN el.a.id ELSE uuids[k],
              element |-> kept[j]]]

\* Lines 53-122 for the paragraphs from the i-th (1-based) on.
RECURSIVE extract_from(_, _, _, _, _, _)
extract_from(root, paragraphs, i, nows, uuids, done) ==
    IF i > Len(paragraphs) THEN <<>>
    ELSE LET p == At(root, paragraphs[i])
             runs_info == get_paragraph_text_with_structure(p)
             original == Strip(Concat(text_parts(p, runs_info, "original")))
             current == Strip(Concat(text_parts(p, runs_info, "current")))
             ins == records_of(p, i - 1, "insertion", original, current, nows, uuids, done)
             del == records_of(p, i - 1, "deletion", original, current, nows, uuids,
                               done + Len(ins))
         IN IF original = <<>> /\ current = <<>>
            THEN extract_from(root, paragraphs, i + 1, nows, uuids, done)
            ELSE ins \o del
                 \o extract_from(root, paragraphs, i + 1, nows, uuids,
                                 done + Len(ins) + Len(del))

\* xpath '//w:body/w:p': the paragraphs that are children of the body.
BodyParagraphs(root) ==
    LET bodies == Desc(root, "body")
    IN Concat([b \in 1..Len(bodies) |->
                 LET ps == Children(At(root, bodies[b]), "p")
                 IN [j \in 1..Len(ps) |-> bodies[b] \o ps[j]]])

\* _extract_changes_from_english_docx(docx_path), the clock reading nows[k]
\* and uuid4 giving uuids[k] for the k-th record.
extract_changes_from_english_docx(archive, nows, uuids) ==
    LET root == ReadDocumentXml(archive)
    IN extract_from(root, BodyParagraphs(root), 1, nows, uuids, 0)

\* --------------------------------------- docx_processor.py: applying changes
\* _get_paragraph_text(p_element)
get_paragraph_text(p_element) == TextOf(p_element, "t")

\* _create_track_changes_element(change_type, text, author, date, change_id)
create_track_changes_element(change_type, text, author, date, change_id) ==
    LET a == [NoAttrs EXCEPT !.author = author, !.date = date, !.id = change_id]
        preserved == [NoAttrs EXCEPT !.space = "preserve"]
    IN IF change_type = "insertion"
       THEN Elem("r", NoAttrs, <<>>,
                 <<Elem("ins", a, <<>>, <<Elem("t", preserved, text, <<>>)>>)>>)
       ELSE Elem("r", NoAttrs, <<>>,
                 <<Elem("del", a, <<>>, <<Elem("delText", preserved, text, <<>>)>>)>>)

\* A reply of _get_llm_response: it raises ConnectionError, or returns text.
Raises == [raises |-> TRUE, text |-> <<>>]
Reply(text) == [raises |-> FALSE, text |-> text]

\* Lines 324-348: runs_to_modify, the child runs that overlap
\* [delete_start, delete_end) by their w:t text.
runs_to_modify_of(p, delete_start, delete_end) ==
    LET runs == Children(p, "r")
        run_texts == [j \in 1..Len(runs) |-> TextOf(At(p, runs[j]), "t")]
        info == [j \in 1..Len(runs) |->
                   LET run_start == SumLen(SubSeq(run_texts, 1, j - 1))
                       run_end == run_start + Len(run_texts[j])
                       overlap_start == Max(run_start, delete_start)
                       overlap_end == Min(run_end, delete_end)
                   IN [index |-> j - 1,
                       element |-> runs[j],
                       text |-> run_texts[j],
                       run_start |-> run_start,
                       run_end |-> run_end,
                       delete_start_in_run |-> overlap_start - run_start,
                       delete_end_in_run |-> overlap_end - run_start]]
    IN SelectSeq(info, LAMBDA x : x.run_start < delete_end /\ x.run_end > delete_start)

\* Lines 352-388 for one run_info: the paragraph with that run replaced by a
\* before run, the deletion run and an after run.
delete_in_run(p, run_info, change) ==
    LET run_element == At(p, run_info.element)
        run_text == run_info.text
        start_offset == run_info.delete_start_in_run
        end_offset == run_info.delete_end_in_run
        before_text == SliceTo(run_text, start_offset)
        deleted_text == Slice(run_text, start_offset, end_offset)
        after_text == SliceFrom(run_text, end_offset)
        \* target_para_element.index(run_element)
        run_index == run_info.element[1] - 1
        k1 == IF before_text # <<>>
              THEN ListInsert(p.kids, run_index, SetAllT(run_element, before_text))
              ELSE p.kids
        off1 == IF before_text # <<>> THEN 1 ELSE 0
        del_run == create_track_changes_element("deletion", deleted_text,
                       change.author, change.date, change.change_id)
        k2 == ListInsert(k1, run_index + off1, del_run)
        off2 == off1 + 1
        k3 == IF after_text # <<>>
              THEN ListInsert(k2, run_index + off2, SetAllT(run_element, after_text))
              ELSE k2
        off3 == IF after_text # <<>> THEN off2 + 1 ELSE off2
    IN \* target_para_element.remove(run_element): it now stands after the new runs
       [p EXCEPT !.kids = ListRemove(k3, run_index + off3)]

\* Lines 351-388: the runs of runs_to_modify from the last to the first.
RECURSIVE delete_in_runs(_, _, _)
delete_in_runs(p, runs_to_modify, change) ==
    IF runs_to_modify = <<>> THEN p
    ELSE delete_in_runs(delete_in_run(p, runs_to_modify[Len(runs_to_modify)], change),
                        SubSeq(runs_to_modify, 1, Len(runs_to_modify) - 1), change)

\* _apply_deletion_change without the test of line 317.
apply_deletion_unchecked(target_para_element, chinese_text, change, reply) ==
    LET text_to_delete == Strip(reply.text)
        delete_start == Find(chinese_text, text_to_delete)
        delete_end == delete_start + Len(text_to_delete)
        runs_to_modify == runs_to_modify_of(target_para_element, delete_start, delete_end)
    IN IF reply.raises
       THEN [returns |-> FALSE, p |-> target_para_element]
       ELSE [returns |-> TRUE,
             p |-> delete_in_runs(target_para_element, runs_to_modify, change)]

\* _apply_deletion_change(target_para_element, chinese_text, change), the
\* matcher answering reply: the value returned and the paragraph afterwards.
apply_deletion_change(target_para_element, chinese_text, change, reply) ==
    LET text_to_delete == Strip(reply.text)
        delete_start == Find(chinese_text, text_to_delete)
        delete_end == delete_start + Len(text_to_delete)
        runs_to_modify == runs_to_modify_of(target_para_element, delete_start, delete_end)
    IN IF reply.raises
       THEN [returns |-> FALSE, p |-> target_para_element]
       ELSE IF text_to_delete = <<>> \/ ~Contains(chinese_text, text_to_delete)
       THEN [returns |-> FALSE, p |-> target_para_element]
       ELSE [returns |-> TRUE,
             p |-> delete_in_runs(target_para_element, runs_to_modify, change)]

\* Lines 240-246: the position, from the matcher's reply (the first number in
\* it, number = None when it holds none).
position_of(chinese_text, raises, number) ==
    IF raises \/ number = None THEN Len(chinese_text)
    ELSE Max(0, Min(number, Len(chinese_text)))

\* Lines 254-260 were line 256 to read current_pos < position: a position at
\* the start of the paragraph finds no run.
RECURSIVE find_target_run_after(_, _, _, _)
find_target_run_after(run_texts, position, i, current_pos) ==
    IF i >= Len(run_texts) THEN [target_run_index |-> None, offset_in_run |-> None]
    ELSE IF current_pos < position /\ position <= current_pos + Len(run_texts[i + 1])
    THEN [target_run_index |-> i, offset_in_run |-> position - current_pos]
    ELSE find_target_run_after(run_texts, position, i + 1,
                               current_pos + Len(run_texts[i + 1]))

\* Lines 254-260 from run i on: target_run_index and offset_in_run.
RECURSIVE find_target_run(_, _, _, _)
find_target_run(run_texts, position, i, current_pos) ==
    IF i >= Len(run_texts) THEN [target_run_index |-> None, offset_in_run |-> None]
    ELSE IF current_pos <= position /\ position <= current_pos + Len(run_texts[i + 1])
    THEN [target_run_index |-> i, offset_in_run |-> position - current_pos]
    ELSE find_target_run(run_texts, position, i + 1, current_pos + Len(run_texts[i + 1]))

\* _apply_insertion_change(target_para_element, text_to_insert, chinese_text,
\* change) once the position is known (lines 248-298): the paragraph afterwards.
apply_insertion_change(target_para_element, text_to_insert, position, change) ==
    LET p == target_para_element
        runs == Children(p, "r")
        run_texts == [j \in 1..Len(runs) |-> TextOf(At(p, runs[j]), "t")]
        found == find_target_run(run_texts, position, 0, 0)
        ins_run == create_track_changes_element("insertion", text_to_insert,
                       change.author, change.date, change.change_id)
    IN IF found.target_run_index = None \/ runs = <<>>
       THEN [p EXCEPT !.kids = Append(p.kids, ins_run)]
       ELSE LET target_run == At(p, runs[found.target_run_index + 1])
                run_text == run_texts[found.target_run_index + 1]
                \* target_para_element.index(target_run)
                index == runs[found.target_run_index + 1][1] - 1
                offset_in_run == found.offset_in_run
            IN IF offset_in_run = 0
               THEN [p EXCEPT !.kids = ListInsert(p.kids, index, ins_run)]
               ELSE IF offset_in_run >= Len(run_text)
               THEN [p EXCEPT !.kids = ListInsert(p.kids, index + 1, ins_run)]
               ELSE LET before_text == SliceTo(run_text, offset_in_run)
                        after_text == SliceFrom(run_text, offset_in_run)
                        before_run == SetAllT(target_run, before_text)
                        k1 == [p.kids EXCEPT ![index + 1] = before_run]
                        k2 == ListInsert(k1, index + 1, ins_run)
                        k3 == IF after_text # <<>>
                              THEN ListInsert(k2, index + 2, SetAllT(before_run, after_text))
                              ELSE k2
                    IN [p EXCEPT !.kids = k3]

\* ------------------------------------------- docx_processor.py: the matcher
\* Line 179: only the first paragraphs are rated.
SimilarityLimit == 10

\* Line 196: a rating must exceed this.
SimilarityThreshold == 5

\* The ratings a similarity reply may parse to; a reply that raises or does
\* not parse rates 0 (lines 191-192).
Scores == {0, 5, 6, 9}

\* max(similarity_scores, key=lambda x: x[0]): the first of the highest.
best_match_of(scores) ==
    CHOOSE i \in 1..Len(scores) :
        /\ \A j \in 1..Len(scores) : scores[j] <= scores[i]
        /\ \A j \in 1..(i - 1) : scores[j] < scores[i]

\* _find_best_chinese_paragraph_match(change, all_chinese_paras,
\* chinese_para_elements).  first is the reply to the alignment prompt
\* (number: the first number in it, None when it holds none); scores are the
\* ratings of the similarity prompts.  raises: ConnectionError leaves the
\* function; matched: a paragraph is returned, else (None, None); calls: the
\* calls of _get_llm_response made.
find_best_chinese_paragraph_match(all_chinese_paras, chinese_para_elements, first, scores) ==
    LET rated == Min(Len(all_chinese_paras), SimilarityLimit)
        none == [raises |-> FALSE, matched |-> FALSE, chinese_text |-> <<>>,
                 target_para_element |-> <<>>, calls |-> 1 + rated]
        hit(i, calls) ==
            [raises |-> FALSE, matched |-> TRUE, chinese_text |-> all_chinese_paras[i],
             target_para_element |-> chinese_para_elements[all_chinese_paras[i]],
             calls |-> calls]
    IN IF first.raises
       THEN [none EXCEPT !.raises = TRUE, !.calls = 1]
       ELSE IF first.number # None /\ 0 <= first.number
               /\ first.number < Len(all_chinese_paras)
       THEN hit(first.number + 1, 1)
       ELSE IF rated > 0 /\ scores[best_match_of(SubSeq(scores, 1, rated))]
                              > SimilarityThreshold
       THEN hit(best_match_of(SubSeq(scores, 1, rated)), 1 + rated)
       ELSE none

\* ---------------------------------------- docx_processor.py: the orchestrator
\* Lines 399-408: the paragraphs with non-blank text, in document order, as
\* (text, path) pairs.
chinese_paras_of(root) ==
    LET ps == BodyParagraphs(root)
        all == [j \in 1..Len(ps) |->
                  [text |-> get_paragraph_text(At(root, ps[j])), p |-> ps[j]]]
    IN SelectSeq(all, LAMBDA x : Strip(x.text) # <<>>)

\* chinese_para_map: a later paragraph of the same text replaces an earlier.
chinese_para_map_of(paras) ==
    [t \in {paras[j].text : j \in 1..Len(paras)} |->
       paras[CHOOSE j \in 1..Len(paras) :
               /\ paras[j].text = t
               /\ \A k \in 1..Len(paras) : paras[k].text = t => k <= j].p]

\* Lines 414-419: changes_by_para, in the order the keys were first met.
changes_by_para_of(changes) ==
    LET keys[i \in 0..Len(changes)] ==
            IF i = 0 THEN <<>>
            ELSE IF \E j \in 1..Len(keys[i - 1]) :
                       keys[i - 1][j] = changes[i].paragraph_index
                 THEN keys[i - 1]
                 ELSE Append(keys[i - 1], changes[i].paragraph_index)
        ks == keys[Len(changes)]
    IN [g \in 1..Len(ks) |->
          [para_idx |-> ks[g],
           para_changes |-> SelectSeq(changes, LAMBDA c : c.paragraph_index = ks[g])]]

\* Lines 468-473: every entry but word/document.xml, read by its name, then
\* word/document.xml with the serialized tree.
ReadByName(archive, e) ==
    LET hits == {i \in 1..Len(archive) :
                   archive[i].dir = e.dir /\ archive[i].file = e.file}
    IN archive[CHOOSE i \in hits : \A j \in hits : j <= i].data

\* Lines 468-473 without the test of line 471: every entry is copied.
rebuilt_unfiltered(archive, root) ==
    [i \in 1..Len(archive) |-> [archive[i] EXCEPT !.data = ReadByName(archive, archive[i])]]
    \o <<Entry("word", "document.xml", root)>>

rebuilt_archive(archive, root) ==
    LET others == SelectSeq(archive, LAMBDA e : ~IsDocumentXml(e))
    IN [i \in 1..Len(others) |->
          [others[i] EXCEPT !.data = ReadByName(archive, others[i])]]
       \o <<Entry("word", "document.xml", root)>>

\* Line 432: what skipping a group adds to failed_changes.
skipped_one(group) == 1

skipped_changes(group) == Len(group)

\* Line 488, shutil.copy2: the copy has the entries of the original, in order.
copy_rebuilt(archive) == File(rebuilt_archive(archive, ReadDocumentXml(archive)))

copy2(archive) == File(archive)

\* Lines 469-472 when z_in.read raises at the first damaged entry: what the
\* archive at output_path holds when the with block closes it.
partial_archive(archive) ==
    LET others == SelectSeq(archive, LAMBDA e : ~IsDocumentXml(e))
        bad == {i \in 1..Len(others) : ReadByName(archive, others[i]) = Corrupt}
        stop == CHOOSE i \in bad : \A j \in bad : i <= j
    IN [i \in 1..(stop - 1) |-> [others[i] EXCEPT !.data = ReadByName(archive, others[i])]]

\* Every entry of the archive but word/document.xml can be read.
Readable(archive) ==
    \A i \in 1..Len(archive) :
        IsDocumentXml(archive[i]) \/ ReadByName(archive, archive[i]) # Corrupt

\* A status message.
Msg(kind, a, b) == [kind |-> kind, a |-> a, b |-> b]

\* The targets run_document_processing is run on: one run, two runs, an
\* empty run between two, two paragraphs of different text, two of the same
\* text, and a paragraph of white space alone.
PipelineTargets ==
    { Document(<<Paragraph(TRUE, << <<"a", "b">> >>)>>),
      Document(<<Paragraph(TRUE, << <<"a">>, <<"b">> >>)>>),
      Document(<<Paragraph(FALSE, << <<"a">>, <<>>, <<"b">> >>)>>),
      Document(<<Paragraph(TRUE, << <<"a", "b">> >>),
                 Paragraph(FALSE, << <<"b">>, <<"a">> >>)>>),
      Document(<<Paragraph(TRUE, << <<"a">> >>), Paragraph(TRUE, << <<"a">> >>)>>),
      Document(<<Paragraph(TRUE, << <<" ">> >>)>>) }

SourceParagraph(kids) == Elem("p", NoAttrs, <<>>, kids)

\* The sources run_document_processing is run on: without markers, with
\* markers that yield no record, with one insertion or deletion, with two
\* changes in one paragraph, and with changes in two paragraphs.
PipelineSources ==
    { Document(<<SourceParagraph(<<TextRun("t", <<"a">>)>>)>>),
      Document(<<SourceParagraph(<<TextRun("t", <<"a">>),
                                   InsMarker(FullAttrs, <<" ">>)>>)>>),
      Document(<<SourceParagraph(<<InsMarker(FullAttrs, <<"b">>)>>)>>),
      Document(<<SourceParagraph(<<TextRun("t", <<"a">>),
                                   InsMarker(FullAttrs, <<"b">>)>>)>>),
      Document(<<SourceParagraph(<<TextRun("t", <<"a">>),
                                   InsMarker(NoAttrs, <<"b">>)>>)>>),
      Document(<<SourceParagraph(<<TextRun("t", <<"a">>),
                                   DelMarker(FullAttrs, <<"a", " ">>)>>)>>),
      Document(<<SourceParagraph(<<TextRun("t", <<"a">>),
                                   InsMarker(FullAttrs, <<"b">>),
                                   DelMarker(FullAttrs, <<"a", " ">>)>>)>>),
      Document(<<SourceParagraph(<<TextRun("t", <<"a">>),
                                   DelMarker(FullAttrs, <<"a", " ">>),
                                   DelMarker(FullAttrs, <<"b">>)>>)>>),
      Document(<<SourceParagraph(<<InsInRun(FullAttrs, <<"b">>)>>),
                 SourceParagraph(<<TextRun("t", <<"a">>),
                                   DelMarker(FullAttrs, <<"a", " ">>)>>)>>),
      Document(<<SourceParagraph(<<TextRun("t", <<"a">>),
                                   DelMarker(FullAttrs, <<"a", " ">>)>>),
                 SourceParagraph(<<InsInRun(FullAttrs, <<"b">>)>>)>>) }

\* What the matcher may answer to the translation prompt (stripped).
Translations == {<<>>, <<"x">>}

\* What the matcher may answer to the identification prompt.
Identifications == StringsUpTo(Alphabet, MaxNeedle)

\* The clock readings of one extraction that starts when the clock reads from.
ClockReadings(from) ==
    {f \in [1..MaxSourceKids -> from..MaxClock] :
       \A i \in 1..(MaxSourceKids - 1) : f[i] <= f[i + 1]}

\* The locals of the last pass of the loop body of lines 436-458: the change,
\* the paragraph before and after it and the text passed in, whether the matcher
\* answered the translation or identification prompt (answered) and what
\* (answer), the position, whether the call returned True (returns) and
\* whether an exception was caught at line 456 (raised).
NoChange ==
    [op |-> "none", returns |-> FALSE, raised |-> FALSE, before |-> Document(<<>>),
     after |-> Document(<<>>), answered |-> FALSE, answer |-> <<>>, position |-> None, chinese_text |-> <<>>,
     author |-> Absent, date |-> Absent, change_id |-> Absent]

LocalsOf(change, before, text) ==
    [NoChange EXCEPT !.op = change.type, !.before = before, !.chinese_text = text,
                     !.author = change.author, !.date = change.date,
                     !.change_id = change.change_id]

VARIABLES
    english,              \* the file at english_path (never written)
    output,               \* the file at output_path
    pc,                   \* "off", "start", "group" (line 422), "apply" (436), "done", "failed"
    now,                  \* the last reading of the clock
    changes,              \* the records extracted
    chinese_root,         \* the parsed word/document.xml of the target
    all_chinese_paras,    \* (text, paragraph) of the non-blank paragraphs at load
    changes_by_para,      \* the records grouped by paragraph_index
    g,                    \* the group being processed (1-based)
    c,                    \* the change of the group being processed (1-based)
    chinese_text,         \* the text returned for the group by the matcher
    target_para_element,  \* the paragraph returned for the group (a path)
    successful_changes,
    failed_changes,
    status,               \* the messages given to update_status_callback
    llm_calls,            \* calls of _get_llm_response so far
    last,                 \* the locals of the last change applied
    extracted             \* what each call of the extractor by itself returned

p_vars == <<english, output, pc, now, changes, chinese_root, all_chinese_paras,
            changes_by_para, g, c, chinese_text, target_para_element,
            successful_changes, failed_changes, status, llm_calls, last, extracted>>

vars == <<chinese, d_vars, p_vars>>

\* Lines 69-78: the target is unpacked and word/document.xml parsed; the
\* target is one of docs and changes_map one of maps.
DocsInitFrom(docs, maps) ==
    /\ chinese \in {Docx(doc) : doc \in docs}
    /\ changes_map \in maps
    /\ d_pc = "loop"
    /\ d_tree = ReadDocumentXml(chinese)
    /\ d_n = 0
    /\ d_locals = NoLocals
    /\ d_out = NoFile

DocsInit == DocsInitFrom(TargetDocs, ChangeMaps)

\* docs.py is not running.
DocsOff ==
    /\ changes_map = <<>>
    /\ d_pc = "off"
    /\ d_tree = Document(<<>>)
    /\ d_n = 0
    /\ d_locals = NoLocals
    /\ d_out = NoFile

\* Lines 80-180: the next entry of changes_map.
DocsApplyChange ==
    /\ d_pc = "loop"
    /\ d_n < Len(changes_map)
    /\ LET change == changes_map[d_n + 1]
           r == apply_change(d_tree, Desc(d_tree, "p"), 1,
                             change.chinese_text, change.type)
       IN /\ d_tree' = r.root
          /\ d_locals' = r.locals
          /\ d_pc' = IF r.locals.outcome = "raised" THEN "raised" ELSE "loop"
    /\ d_n' = d_n + 1
    /\ UNCHANGED <<chinese, changes_map, d_out, p_vars>>

\* Lines 182-188, after the last entry of changes_map: the tree is written over
\* word/document.xml in the unpacked directory, and the directory is zipped:
\* one entry for each directory and each file.
DocsWriteBack ==
    /\ d_pc = "loop"
    /\ d_n = Len(changes_map)
    /\ d_pc' = "done"
    /\ d_out' = File(
         LET files == {[chinese[i] EXCEPT !.data =
                           IF IsDocumentXml(chinese[i]) THEN d_tree ELSE @] :
                       i \in 1..Len(chinese)}
             dirs == {Entry(f.dir, "", Opaque("dir")) : f \in {x \in files : x.dir # ""}}
         IN files \cup dirs)
    /\ UNCHANGED <<chinese, changes_map, d_tree, d_n, d_locals, p_vars>>

DocsNext == DocsApplyChange \/ DocsWriteBack

\* Nothing extracted, nothing loaded.
Idle ==
    /\ output = NoFile
    /\ now = 1
    /\ changes = <<>>
    /\ chinese_root = Document(<<>>)
    /\ all_chinese_paras = <<>>
    /\ changes_by_para = <<>>
    /\ g = 1
    /\ c = 1
    /\ chinese_text = <<>>
    /\ target_para_element = <<>>
    /\ successful_changes = 0
    /\ failed_changes = 0
    /\ status = <<>>
    /\ llm_calls = 0
    /\ last = NoChange
    /\ extracted = <<>>

\* run_document_processing(english_path, chinese_path, output_path, ...) is called.
ProcInit ==
    /\ english \in {Docx(doc) : doc \in PipelineSources}
    /\ chinese \in {Docx(doc) : doc \in PipelineTargets}
                   \cup {DamagedDocx(doc) : doc \in PipelineTargets}
    /\ pc = "start"
    /\ Idle
    /\ DocsOff

\* Lines 481-497 and 395-419: the records are extracted; with none, the target
\* is copied to the output, byte for byte, and the run ends; else the target is loaded and
\* the records grouped.
Extract ==
    /\ pc = "start"
    /\ \E nows \in ClockReadings(1), uuids \in [1..MaxSourceKids -> FreshIds] :
         LET found == extract_changes_from_english_docx(english, nows, uuids)
             root == ReadDocumentXml(chinese)
             step1 == Append(status, Msg("step1", 0, 0))
         IN /\ changes' = found
            /\ IF found = <<>>
               THEN /\ status' = Append(step1, Msg("no_changes", 0, 0))
                    /\ output' = copy2(chinese)
                    /\ pc' = "done"
                    /\ UNCHANGED <<chinese_root, all_chinese_paras, changes_by_para>>
               ELSE /\ status' = step1 \o
                         << Msg("found", Len(found),
                                Len(SelectSeq(found, LAMBDA x : x.type = "insertion"))),
                            Msg("step2", 0, 0) >>
                    /\ chinese_root' = root
                    /\ all_chinese_paras' = chinese_paras_of(root)
                    /\ changes_by_para' = changes_by_para_of(found)
                    /\ pc' = "group"
                    /\ UNCHANGED output
    /\ UNCHANGED <<english, chinese, now, g, c, chinese_text, target_para_element,
                   successful_changes, failed_changes, llm_calls, last, extracted, d_vars>>

\* chinese_para_map as built at load (lines 401-407).
chinese_para_map == chinese_para_map_of(all_chinese_paras)

\* The replies the alignment prompt may get.
FirstReplies ==
    {[raises |-> TRUE, number |-> None]}
    \cup {[raises |-> FALSE, number |-> n] : n \in {None} \cup 0..Len(all_chinese_paras)}

\* The ratings the similarity prompts may get.
ScoreLists == [1..Min(Len(all_chinese_paras), SimilarityLimit) -> Scores]

\* The outcomes of line 427 for the group at hand.
Matches ==
    { find_best_chinese_paragraph_match(
          [j \in 1..Len(all_chinese_paras) |-> all_chinese_paras[j].text],
          chinese_para_map, first, scores) :
      first \in FirstReplies, scores \in ScoreLists }

para_changes == changes_by_para[g].para_changes

\* Lines 423-428 and 501-502: the matcher is unavailable while the paragraph of
\* the group is resolved; ConnectionError ends the run.
MatchRaises ==
    /\ pc = "group"
    /\ g <= Len(changes_by_para)
    /\ \E m \in Matches :
         /\ m.raises
         /\ llm_calls' = llm_calls + m.calls
    /\ status' = status \o << Msg("processing", changes_by_para[g].para_idx + 1,
                                  Len(para_changes)),
                              Msg("connection_error", 0, 0) >>
    /\ pc' = "failed"
    /\ UNCHANGED <<english, chinese, output, now, changes, chinese_root,
                   all_chinese_paras, changes_by_para, g, c, chinese_text,
                   target_para_element, successful_changes, failed_changes, last,
                   extracted, d_vars>>

\* Lines 423-433: no paragraph for the group; its changes are counted failed.
\* Line 427 has assigned what the matcher returned: (None, None), written
\* <<>> and <<>> as before the first group, or a text and a paragraph that
\* line 430 takes for false.
MatchNone ==
    /\ pc = "group"
    /\ g <= Len(changes_by_para)
    /\ \E m \in Matches :
         /\ ~m.raises
         /\ \/ ~m.matched
            \/ m.chinese_text = <<>>
            \/ At(chinese_root, m.target_para_element).kids = <<>>
         /\ llm_calls' = llm_calls + m.calls
         /\ chinese_text' = m.chinese_text
         /\ target_para_element' = m.target_para_element
    /\ status' = status \o << Msg("processing", changes_by_para[g].para_idx + 1,
                                  Len(para_changes)),
                              Msg("no_match", changes_by_para[g].para_idx + 1,
                                  Len(para_changes)) >>
    /\ failed_changes' = failed_changes + skipped_changes(para_changes)
    /\ g' = g + 1
    /\ UNCHANGED <<english, chinese, output, pc, now, changes, chinese_root,
                   all_chinese_paras, changes_by_para, c, successful_changes, last,
                   extracted, d_vars>>

\* Lines 423-430: a paragraph is returned for the group.
MatchFound ==
    /\ pc = "group"
    /\ g <= Len(changes_by_para)
    /\ \E m \in Matches :
         /\ ~m.raises
         /\ m.matched
         /\ m.chinese_text # <<>>
         /\ At(chinese_root, m.target_para_element).kids # <<>>
         /\ llm_calls' = llm_calls + m.calls
         /\ chinese_text' = m.chinese_text
         /\ target_para_element' = m.target_para_element
    /\ status' = Append(status, Msg("processing", changes_by_para[g].para_idx + 1,
                                    Len(para_changes)))
    /\ c' = 1
    /\ pc' = "apply"
    /\ UNCHANGED <<english, chinese, output, now, changes, chinese_root,
                   all_chinese_paras, changes_by_para, g, successful_changes,
                   failed_changes, last, extracted, d_vars>>

\* The loop of line 436 moves on: to the next change, or to the next group.
NextChange ==
    IF c < Len(para_changes)
    THEN c' = c + 1 /\ UNCHANGED <<g, pc>>
    ELSE c' = 1 /\ g' = g + 1 /\ pc' = "group"


change == para_changes[c]

target_para == At(chinese_root, target_para_element)

\* Lines 438-447 and 456-458: an insertion.  The translation prompt may raise
\* (the change is counted failed); the position prompt may raise or hold no
\* number (the position defaults to the end).
ApplyInsertion ==
    /\ pc = "apply"
    /\ change.type = "insertion"
    /\ \/ /\ llm_calls' = llm_calls + 1
          /\ failed_changes' = failed_changes + 1
          /\ status' = Append(status, Msg("error", 0, 0))
          /\ last' = [LocalsOf(change, target_para, chinese_text) EXCEPT
                        !.raised = TRUE, !.after = target_para]
          /\ UNCHANGED <<chinese_root, successful_changes>>
       \/ \E text_to_insert \in Translations,
             raises \in BOOLEAN,
             number \in {None} \cup 0..(Len(chinese_text) + 1) :
            LET position == position_of(chinese_text, raises, number)
                done == apply_insertion_change(target_para, text_to_insert,
                                               position, change)
            IN /\ llm_calls' = llm_calls + 2
               /\ chinese_root' = ReplaceAt(chinese_root, target_para_element, done)
               /\ successful_changes' = successful_changes + 1
               /\ last' = [LocalsOf(change, target_para, chinese_text) EXCEPT
                             !.returns = TRUE, !.after = done, !.answered = TRUE,
                             !.answer = text_to_insert,
                             !.position = position]
               /\ UNCHANGED <<failed_changes, status>>
    /\ NextChange
    /\ UNCHANGED <<english, chinese, output, now, changes, all_chinese_paras,
                   changes_by_para, chinese_text, target_para_element, extracted,
                   d_vars>>

\* Lines 449-454: a deletion; counted by what _apply_deletion_change returns.
ApplyDeletion ==
    /\ pc = "apply"
    /\ change.type = "deletion"
    /\ \E reply \in {Raises} \cup {Reply(t) : t \in Identifications} :
         LET done == apply_deletion_change(target_para, chinese_text, change, reply)
         IN /\ chinese_root' = ReplaceAt(chinese_root, target_para_element, done.p)
            /\ last' = [LocalsOf(change, target_para, chinese_text) EXCEPT
                          !.returns = done.returns, !.after = done.p,
                          !.answered = ~reply.raises,
                          !.answer = reply.text]
            /\ IF done.returns
               THEN /\ successful_changes' = successful_changes + 1
                    /\ UNCHANGED <<failed_changes, status>>
               ELSE /\ failed_changes' = failed_changes + 1
                    /\ status' = Append(status, Msg("no_deletion", 0, 0))
                    /\ UNCHANGED successful_changes
    /\ llm_calls' = llm_calls + 1
    /\ NextChange
    /\ UNCHANGED <<english, chinese, output, now, changes, all_chinese_paras,
                   changes_by_para, chinese_text, target_para_element, extracted,
                   d_vars>>

\* Lines 460-476 and 499: after the last group the tree is serialized, the
\* output archive written and the counts reported.
Finalize ==
    /\ pc = "group"
    /\ g > Len(changes_by_para)
    /\ Readable(chinese)
    /\ output' = File(rebuilt_archive(chinese, chinese_root))
    /\ status' = status \o << Msg("finalizing", 0, 0),
                              Msg("complete", successful_changes, failed_changes),
                              Msg("step3", 0, 0) >>
    /\ pc' = "done"
    /\ UNCHANGED <<english, chinese, now, changes, chinese_root, all_chinese_paras,
                   changes_by_para, g, c, chinese_text, target_para_element,
                   successful_changes, failed_changes, llm_calls, last, extracted, d_vars>>

\* Lines 460-472 and 503-504: an entry of the target cannot be read while the
\* output archive, already opened for writing at output_path, is being
\* filled; BadZipFile ends the run.
FinalizeRaises ==
    /\ pc = "group"
    /\ g > Len(changes_by_para)
    /\ ~Readable(chinese)
    /\ output' = File(partial_archive(chinese))
    /\ status' = status \o << Msg("finalizing", 0, 0), Msg("bad_zip", 0, 0) >>
    /\ pc' = "failed"
    /\ UNCHANGED <<english, chinese, now, changes, chinese_root, all_chinese_paras,
                   changes_by_para, g, c, chinese_text, target_para_element,
                   successful_changes, failed_changes, llm_calls, last, extracted, d_vars>>

Next ==
    \/ Extract
    \/ MatchRaises
    \/ MatchNone
    \/ MatchFound
    \/ ApplyInsertion
    \/ ApplyDeletion
    \/ Finalize
    \/ FinalizeRaises

\* run_document_processing, from its call to its return.
Spec == ProcInit /\ [][Next]_vars

\* ------------------------------------------------- apply_tracked_changes...
\* apply_tracked_changes_to_chinese_doc, from its call to its return.
DocsStart ==
    /\ DocsInit
    /\ english = Docx(Document(<<>>))
    /\ pc = "off"
    /\ Idle

SpecDocs == DocsStart /\ [][DocsNext]_vars

\* ------------------------------------------ the changes of one paragraph
\* Sources whose records all belong to one paragraph: an insertion, a
\* deletion, an insertion then a deletion.
ApplySources ==
    { Document(<<SourceParagraph(<<TextRun("t", <<"a">>),
                                   InsMarker(FullAttrs, <<"b">>)>>)>>),
      Document(<<SourceParagraph(<<TextRun("t", <<"a">>),
                                   DelMarker(FullAttrs, <<"a", " ">>)>>)>>),
      Document(<<SourceParagraph(<<TextRun("t", <<"a">>),
                                   InsMarker(FullAttrs, <<"b">>),
                                   DelMarker(FullAttrs, <<"a", " ">>)>>)>>) }

\* Targets of one paragraph: every text within the bound, cut every way into
\* runs of one <w:t> each, behind a <w:pPr>; the text is not blank, or line
\* 406 drops it.  And paragraphs with a run of two <w:t>.
ApplyTargets ==
    { Document(<<Paragraph(TRUE, texts)>>) :
      texts \in {t \in RunTextLists : Strip(Concat(t)) # <<>>} }
    \cup { Document(<<p>>) : p \in BrokenParagraphs(TRUE) }

\* _create_updated_docx at line 436 for the first time: the records are
\* extracted from one of sources and grouped, the target is loaded and the
\* paragraph of the group was returned by the alignment prompt.
ApplyInitFrom(sources) ==
    /\ english \in {Docx(doc) : doc \in sources}
    /\ chinese \in {Docx(doc) : doc \in ApplyTargets}
    /\ changes = extract_changes_from_english_docx(
                     english, [k \in 1..MaxSourceKids |-> 1],
                     [k \in 1..MaxSourceKids |-> "u1"])
    /\ chinese_root = ReadDocumentXml(chinese)
    /\ all_chinese_paras = chinese_paras_of(chinese_root)
    /\ changes_by_para = changes_by_para_of(changes)
    /\ g = 1
    /\ c = 1
    /\ chinese_text = all_chinese_paras[1].text
    /\ target_para_element = all_chinese_paras[1].p
    /\ successful_changes = 0
    /\ failed_changes = 0
    /\ status = << Msg("step1", 0, 0),
                   Msg("found", Len(changes),
                       Len(SelectSeq(changes, LAMBDA x : x.type = "insertion"))),
                   Msg("step2", 0, 0),
                   Msg("processing", 1, Len(changes)) >>
    /\ llm_calls = 1
    /\ last = NoChange
    /\ output = NoFile
    /\ now = 1
    /\ extracted = <<>>
    /\ pc = "apply"
    /\ DocsOff

ApplyInit == ApplyInitFrom(ApplySources)

ApplyNext ==
    \/ ApplyInsertion
    \/ ApplyDeletion
    \/ Finalize

\* The loop of line 436 over the changes of one paragraph, then the output.
SpecApply == ApplyInit /\ [][ApplyNext]_vars

\* --------------------------------------------------- the two locators
LocateNext ==
    \/ DocsApplyChange
    \/ DocsWriteBack
    \/ ApplyInsertion
    \/ ApplyDeletion
    \/ Finalize

\* Targets of one paragraph, with and without a <w:pPr>.
OneParagraphDocs ==
    { Document(<<Paragraph(pp, texts)>>) : pp \in BOOLEAN, texts \in RunTextLists }

\* docs.py is called with one change for a target of one paragraph.
LocateDocsStart ==
    /\ DocsInitFrom(OneParagraphDocs, {m \in ChangeMaps : Len(m) = 1})
    /\ english = Docx(Document(<<>>))
    /\ pc = "off"
    /\ Idle

\* Either program: docs.py from its call, or _create_updated_docx at line 436.
SpecLocate == (LocateDocsStart \/ ApplyInit) /\ [][LocateNext]_vars

\* ------------------------------------------------- the extractor by itself
\* Most calls of the extractor on one document.
MaxCalls == 2

\* _extract_changes_from_english_docx is about to be called on a document.
ExtractInit ==
    /\ english \in {Docx(doc) : doc \in SourceDocs}
    /\ chinese = Docx(Document(<<>>))
    /\ pc = "extract"
    /\ Idle
    /\ DocsOff

\* One more call on the same file; the clock does not run backwards.
ExtractCall ==
    /\ pc = "extract"
    /\ Len(extracted) < MaxCalls
    /\ \E nows \in ClockReadings(now), uuids \in [1..MaxSourceKids -> FreshIds] :
         /\ extracted' = Append(extracted,
                                extract_changes_from_english_docx(english, nows, uuids))
         /\ now' = nows[MaxSourceKids]
    /\ UNCHANGED <<english, chinese, output, pc, changes, chinese_root,
                   all_chinese_paras, changes_by_para, g, c, chinese_text,
                   target_para_element, successful_changes, failed_changes, status,
                   llm_calls, last, d_vars>>

SpecExtract == ExtractInit /\ [][ExtractCall]_vars

\* --------------------------------------------------------------- properties
\* The 0-based indices at which needle occurs in hay.
Occurrences(hay, needle) == {i \in 0..Len(hay) : OccursAt(hay, needle, i)}

Lowest(S) == CHOOSE i \in S : \A j \in S : i <= j

\* The text under tag of a list of elements, in order.
KidsText(kids, tag) == Concat([j \in 1..Len(kids) |-> TextOf(kids[j], tag)])

\* docs.py has marked a non-empty needle in a paragraph.
DocsMarked == d_locals.outcome = "applied" /\ d_locals.c_text # <<>>

\* docs.py has located a non-empty needle in a paragraph (lines 101-125 ran).
DocsLocated == d_locals.outcome \in {"applied", "raised"} /\ d_locals.c_text # <<>>

\* The paragraph docs.py last rewrote, as it stands in the tree.
DocsParagraph == At(d_tree, Desc(d_tree, "p")[d_locals.para + 1])

\* Where the span docs.py located starts and ends, in characters of para_text.
DocsSpanStart ==
    SumLen(SubSeq(d_locals.run_texts, 1, d_locals.start_run_idx)) + d_locals.start_offset

DocsSpanEnd ==
    SumLen(SubSeq(d_locals.run_texts, 1, d_locals.end_run_idx)) + d_locals.end_offset

\* C1: whenever docs.py has marked a non-empty needle in a paragraph, the run
\* texts of the paragraph, concatenated in document order, are the text the
\* paragraph had before, and the text inside the new marker is the needle.
C1_TextConserved ==
    DocsMarked =>
        /\ TextOf(DocsParagraph, "t") = d_locals.para_text
        /\ d_locals.changed_text = d_locals.c_text

\* C2: whenever docs.py has located a non-empty needle whose first occurrence
\* in the concatenated run text is [start, end), the span starts at start and
\* ends at end in run coordinates, 0 <= start_offset < len(start run),
\* 0 < end_offset <= len(end run), start_run_idx <= end_run_idx; a needle
\* inside one run has both indices equal; a needle that ends with the final run
\* has end_offset = len(last run); and "lo wo" in "Hello ", "world" is
\* (0, 3, 1, 2).
C2_SpanLocated ==
    DocsLocated =>
        LET rt == d_locals.run_texts
            start == Lowest(Occurrences(d_locals.para_text, d_locals.c_text))
            end == start + Len(d_locals.c_text)
            s == d_locals.start_run_idx
            e == d_locals.end_run_idx
        IN /\ s \in 0..(Len(rt) - 1)
           /\ e \in 0..(Len(rt) - 1)
           /\ DocsSpanStart = start
           /\ DocsSpanEnd = end
           /\ 0 <= d_locals.start_offset
           /\ d_locals.start_offset < Len(rt[s + 1])
           /\ 0 < d_locals.end_offset
           /\ d_locals.end_offset <= Len(rt[e + 1])
           /\ s <= e
           /\ \A j \in 1..Len(rt) :
                (SumLen(SubSeq(rt, 1, j - 1)) <= start
                 /\ end <= SumLen(SubSeq(rt, 1, j))) => (s = j - 1 /\ e = j - 1)
           /\ (e = Len(rt) - 1 /\ end = Len(d_locals.para_text))
                => d_locals.end_offset = Len(rt[Len(rt)])
           /\ (rt = HelloRuns /\ d_locals.c_text = <<"l", "o", " ", "w", "o">>)
                => <<s, d_locals.start_offset, e, d_locals.end_offset>> = <<0, 3, 1, 2>>

\* "lo wo" has been marked in the runs "Hello ", "world".
C2_Witness ==
    /\ d_locals.outcome = "applied"
    /\ d_locals.run_texts = HelloRuns
    /\ d_locals.c_text = <<"l", "o", " ", "w", "o">>
    /\ d_locals.start_run_idx = 0
    /\ d_locals.end_run_idx = 1

\* e is a run that holds a deletion marker with the attributes of the change
\* of locals l, and no live text.
IsDeletionRun(e, l) ==
    /\ e.tag = "r"
    /\ Len(e.kids) = 1
    /\ e.kids[1].tag = "del"
    /\ e.kids[1].a.author = l.author
    /\ e.kids[1].a.date = l.date
    /\ e.kids[1].a.id = l.change_id
    /\ TextOf(e, "t") = <<>>

\* The children of paragraph p are: children whose live text is before, then
\* one or more deletion runs of the change of l whose deleted texts make up
\* deleted, then children whose live text is after.
DeletedBetween(p, before, deleted, after, l) ==
    \E i \in 1..Len(p.kids), j \in 1..Len(p.kids) :
        /\ i <= j
        /\ \A k \in i..j : IsDeletionRun(p.kids[k], l)
        /\ KidsText(SubSeq(p.kids, 1, i - 1), "t") = before
        /\ KidsText(SubSeq(p.kids, i, j), "delText") = deleted
        /\ KidsText(SubSeq(p.kids, j + 1, Len(p.kids)), "t") = after

\* The last change was a deletion that returned True.
Deleted == last.op = "deletion" /\ last.returns

\* The last change was an insertion that was applied.
Inserted == last.op = "insertion" /\ last.returns

\* The live text of the paragraph when the last change began.
TextBefore == TextOf(last.before, "t")

\* The text the last deletion was to delete.
Target == Strip(last.answer)

\* C3: every change is located in the text the paragraph has when the change
\* begins: a deletion that returned True has wrapped an occurrence of its
\* target in that text and nothing else, and an insertion stands at its
\* position in that text.
C3_LocatedInCurrentText ==
    /\ Deleted =>
         \E lo \in Occurrences(TextBefore, Target) :
             DeletedBetween(last.after, SliceTo(TextBefore, lo), Target,
                            SliceFrom(TextBefore, lo + Len(Target)), last)
    /\ Inserted =>
         LET q == Min(last.position, Len(TextBefore))
         IN TextOf(last.after, "t")
              = SliceTo(TextBefore, q) \o last.answer \o SliceFrom(TextBefore, q)

\* C4: a run that has ended, whatever the matcher did, has written the output,
\* the output holds the tree with every change that was applied, and every
\* record was counted.
C4_MatcherFailureIsSoft ==
    pc \in {"done", "failed"} =>
        /\ output.exists
        /\ changes # <<>> =>
             /\ ReadDocumentXml(output.entries) = chinese_root
             /\ successful_changes + failed_changes = Len(changes)

\* C5: when the run reaches its completion report, successful_changes +
\* failed_changes is the number of records extracted, and the report of line
\* 475 states both counts.
C5_EveryRecordCounted ==
    pc = "done" =>
        /\ successful_changes + failed_changes = Len(changes)
        /\ changes # <<>> =>
             \E k \in 1..Len(status) :
                 status[k] = Msg("complete", successful_changes, failed_changes)

\* A run ended having skipped a group of two changes.
C5_Witness ==
    /\ pc = "done"
    /\ Len(changes) = 2
    /\ failed_changes = 2
    /\ \E k \in 1..Len(status) : status[k].kind = "no_match" /\ status[k].b = 2

\* C6: a deletion for which the matcher call fails, or answers the empty text,
\* or a text that does not occur in the paragraph text passed in, returns
\* False, leaves the tree as it was, and adds 1 to failed_changes and nothing
\* to successful_changes.
C6_SoftFailureChangesNothing ==
    [][ ( /\ pc = "apply"
          /\ change.type = "deletion"
          /\ \/ ~last'.answered
             \/ Strip(last'.answer) = <<>>
             \/ Occurrences(chinese_text, Strip(last'.answer)) = {} )
        => ( /\ ~last'.returns
             /\ chinese_root' = chinese_root
             /\ failed_changes' = failed_changes + 1
             /\ successful_changes' = successful_changes ) ]_vars

\* A deletion failed because the text answered is not in the paragraph text.
C6_Witness ==
    /\ last.op = "deletion"
    /\ ~last.returns
    /\ last.answered
    /\ Target # <<>>
    /\ Occurrences(last.chinese_text, Target) = {}
    /\ failed_changes >= 1

\* C7: a deletion that returned True on a paragraph whose live text was the
\* text passed in has left: the text before the first occurrence of the
\* target, then deletion runs whose deleted texts make up the target, then the
\* text after that occurrence; the live text is the two parts joined.
C7_DeletionWrapsTarget ==
    (Deleted /\ TextBefore = last.chinese_text) =>
        LET found == Occurrences(last.chinese_text, Target)
            lo == Lowest(found)
            before == SliceTo(last.chinese_text, lo)
            after == SliceFrom(last.chinese_text, lo + Len(Target))
        IN /\ Target # <<>>
           /\ found # {}
           /\ DeletedBetween(last.after, before, Target, after, last)
           /\ TextOf(last.after, "t") = before \o after

\* C8: when the needle occurs more than once in the text of the paragraph,
\* what is located and marked is its lowest occurrence: the span of docs.py
\* is that occurrence and the text it marks is the needle, and a deletion of
\* docx_processor.py that returned True has wrapped that occurrence and left
\* the text around it.
C8_FirstOccurrence ==
    /\ (DocsLocated
        /\ Cardinality(Occurrences(d_locals.para_text, d_locals.c_text)) >= 2) =>
          LET lo == Lowest(Occurrences(d_locals.para_text, d_locals.c_text))
          IN /\ DocsSpanStart = lo
             /\ DocsSpanEnd = lo + Len(d_locals.c_text)
             /\ d_locals.changed_text = d_locals.c_text
    /\ (Deleted /\ Cardinality(Occurrences(TextBefore, Target)) >= 2) =>
          LET lo == Lowest(Occurrences(TextBefore, Target))
          IN DeletedBetween(last.after, SliceTo(TextBefore, lo), Target,
                            SliceFrom(TextBefore, lo + Len(Target)), last)

\* C9: every call of the extractor on the same file returns the same records.
C9_ReExtractionIdentical ==
    \A i \in 1..Len(extracted), j \in 1..Len(extracted) : extracted[i] = extracted[j]

\* C10: a run that extracted no records has written an output with the entries
\* of the target, in order, and has made no call of the matcher.
C10_ZeroRecordsNoOp ==
    (pc = "done" /\ changes = <<>>) =>
        /\ output.exists
        /\ output.entries = chinese
        /\ llm_calls = 0

\* A run on a source that holds a marker ended with no records.
C10_Witness ==
    /\ pc = "done"
    /\ changes = <<>>
    /\ output.exists
    /\ Desc(ReadDocumentXml(english), "ins") # <<>>

\* ------------------------------------- the splices and changes of both programs
\* Targets of docs.py: every paragraph within the bounds, alone, or behind a
\* <w:pPr> and followed by a paragraph of the runs "a", "b".
SpliceDocs ==
    UNION { { Document(<<Paragraph(FALSE, texts)>>),
              Document(<<Paragraph(TRUE, texts),
                         Paragraph(FALSE, << <<"a">>, <<"b">> >>)>>) } :
            texts \in RunTextLists }

\* docs.py is called on one of those targets.
SpliceDocsStart ==
    /\ DocsInitFrom(SpliceDocs, ChangeMaps)
    /\ english = Docx(Document(<<>>))
    /\ pc = "off"
    /\ Idle

\* The sources of ApplySources that hold one record.
OneRecordSources ==
    { doc \in ApplySources : Len(Desc(doc, "ins")) + Len(Desc(doc, "del")) = 1 }

\* Either program from its call, or _create_updated_docx at line 436 with
\* one change to apply.
SpecSplice ==
    (SpliceDocsStart \/ ApplyInitFrom(OneRecordSources))
    /\ [][LocateNext]_vars

\* The elements at paths below n, in order.
Elements(n, paths) == [j \in 1..Len(paths) |-> At(n, paths[j])]

\* a can be had from b by leaving elements out.
RECURSIVE IsSubsequence(_, _)
IsSubsequence(a, b) ==
    IF a = <<>> THEN TRUE
    ELSE IF b = <<>> THEN FALSE
    ELSE IF Head(a) = Head(b) THEN IsSubsequence(Tail(a), Tail(b))
    ELSE IsSubsequence(a, Tail(b))

\* The runs of a list outside the 0-based indices lo..hi.
Outside(runs, lo, hi) ==
    SubSeq(runs, 1, lo) \o SubSeq(runs, hi + 2, Len(runs))

\* The paragraphs of root other than the one at path are in after as in before.
OthersKept(before, after, paragraphs, path) ==
    \A q \in 1..Len(paragraphs) :
        paragraphs[q] # path => At(after, paragraphs[q]) = At(before, paragraphs[q])

\* The step is a pass of docs.py that spliced a paragraph.
DocsSplices == d_pc = "loop" /\ d_n' = d_n + 1 /\ d_locals'.outcome = "applied"

\* The step is a deletion of docx_processor.py that returned True.
Deletes == pc = "apply" /\ change.type = "deletion" /\ last'.returns

\* The runs_to_modify of the deletion the step makes.
DeleteSpan ==
    LET text_to_delete == Strip(last'.answer)
        delete_start == Find(chinese_text, text_to_delete)
    IN runs_to_modify_of(target_para, delete_start, delete_start + Len(text_to_delete))

\* C11: a splice of docs.py leaves every run of the paragraph before
\* start_run_idx or after end_run_idx as it was (text and formatting), in the
\* same order, and every other paragraph as it was; so does a deletion of
\* docx_processor.py for the runs outside runs_to_modify.
C11_UntouchedRunsKept ==
    [][ /\ DocsSplices =>
            LET paragraphs == Desc(d_tree, "p")
                path == paragraphs[d_locals'.para + 1]
                runs == Elements(At(d_tree, path), Desc(At(d_tree, path), "r"))
                now_runs == Elements(At(d_tree', path), Desc(At(d_tree', path), "r"))
            IN /\ IsSubsequence(Outside(runs, d_locals'.start_run_idx,
                                        d_locals'.end_run_idx), now_runs)
               /\ OthersKept(d_tree, d_tree', paragraphs, path)
        /\ Deletes =>
            LET runs == Elements(target_para, Children(target_para, "r"))
                now_runs == Elements(last'.after, Children(last'.after, "r"))
                span == DeleteSpan
                kept == IF span = <<>> THEN runs
                        ELSE Outside(runs, span[1].index, span[Len(span)].index)
            IN /\ IsSubsequence(kept, now_runs)
               /\ Len(now_runs) - Len(kept) <= 3 * Len(span)
               /\ OthersKept(chinese_root, chinese_root',
                             BodyParagraphs(chinese_root), target_para_element) ]_vars

\* A deletion inside the middle run of three left the runs around it alone.
C11_Witness ==
    /\ Deleted
    /\ Len(Children(last.before, "r")) = 3
    /\ Len(Children(last.after, "r")) = 3
    /\ last.after.kids[2] = last.before.kids[2]
    /\ last.after.kids[4] = last.before.kids[4]
    /\ TextOf(last.before.kids[2], "t") # <<>>
    /\ TextOf(last.before.kids[4], "t") # <<>>

\* Entries e and f have the same name.
SameName(e, f) == e.dir = f.dir /\ e.file = f.file

\* The set of entries holds, under the name of e, one entry, with this content.
HoldsOnce(entries, e, data) ==
    /\ \E f \in entries : SameName(e, f) /\ f.data = data
    /\ Cardinality({f \in entries : SameName(e, f)}) = 1

\* The sequence of entries holds, under the name of e, one entry, with this
\* content.
HoldsOnceInOrder(entries, e, data) ==
    LET at == {i \in 1..Len(entries) : SameName(e, entries[i])}
    IN Cardinality(at) = 1 /\ \A i \in at : entries[i].data = data

\* C12: an output archive that was written holds every entry of the target
\* other than word/document.xml once, under its name and with its content,
\* and holds word/document.xml once, with the tree as the run left it.
C12_ContainerPassThrough ==
    /\ d_pc = "done" =>
         \A i \in 1..Len(chinese) :
             HoldsOnce(d_out.entries, chinese[i],
                       IF IsDocumentXml(chinese[i]) THEN d_tree ELSE chinese[i].data)
    /\ pc = "done" =>
         \A i \in 1..Len(chinese) :
             HoldsOnceInOrder(output.entries, chinese[i],
                              IF ~IsDocumentXml(chinese[i]) THEN chinese[i].data
                              ELSE IF changes = <<>> THEN ReadDocumentXml(chinese)
                              ELSE chinese_root)

\* A run that applied a change has written its output.
C12_Witness ==
    /\ pc = "done"
    /\ successful_changes >= 1
    /\ output.exists
    /\ ReadDocumentXml(output.entries) # ReadDocumentXml(chinese)

\* The entries hold every entry of the target by name, word/document.xml too.
Complete(entries) ==
    \A i \in 1..Len(chinese) :
        \E j \in 1..Len(entries) : SameName(chinese[i], entries[j])

\* C13: a file at the output path is never a partly written archive, and a
\* run that failed has left the output path as it was before the run.
C13_AtomicOutput ==
    /\ output.exists => Complete(output.entries)
    /\ pc = "failed" => output = NoFile
    /\ d_pc = "raised" => d_out = NoFile

\* 1 when the text is not empty, else 0.
NonEmpty(text) == IF text = <<>> THEN 0 ELSE 1

\* C14: a splice over k runs changes the number of runs of the paragraph by
\* -k + 1, plus one when before-text is not empty, plus one when after-text
\* is not empty: in docs.py for the runs start_run_idx..end_run_idx, in
\* docx_processor.py for the runs of runs_to_modify.
C14_RunCountAfterSplice ==
    [][ /\ DocsSplices =>
            LET paragraphs == Desc(d_tree, "p")
                path == paragraphs[d_locals'.para + 1]
                k == d_locals'.end_run_idx - d_locals'.start_run_idx + 1
            IN Len(Desc(At(d_tree', path), "r")) - Len(Desc(At(d_tree, path), "r"))
                   = 1 - k + NonEmpty(d_locals'.before_text)
                           + NonEmpty(d_locals'.after_text)
        /\ Deletes /\ DeleteSpan # <<>> =>
            LET span == DeleteSpan
                k == Len(span)
                first == span[1]
                final == span[k]
                before_text == SliceTo(first.text, first.delete_start_in_run)
                after_text == SliceFrom(final.text, final.delete_end_in_run)
            IN Len(Desc(last'.after, "r")) - Len(Desc(target_para, "r"))
                   = 1 - k + NonEmpty(before_text) + NonEmpty(after_text) ]_vars

\* The text docs.py reads in the paragraph at path of root (lines 87-94).
DocsParaText(root, path) ==
    LET p == At(root, path)
        runs == Desc(p, "r")
    IN Concat([j \in 1..Len(runs) |-> TextOf(At(p, runs[j]), "t")])

\* The step resolves the paragraph of a group of docx_processor.py.
Resolves == pc = "group" /\ pc' = "apply"

\* C15: of the paragraphs of the target with the same text, the first in
\* document order is the one a revision is applied to: in docx_processor.py
\* the paragraph resolved for a group is the first whose text is the matched
\* text, in docs.py no paragraph before the spliced one holds the text sought.
C15_FirstWins ==
    [][ /\ Resolves =>
            \A j \in 1..Len(all_chinese_paras) :
                (/\ all_chinese_paras[j].text = chinese_text'
                 /\ \A k \in 1..(j - 1) : all_chinese_paras[k].text # chinese_text')
                => target_para_element' = all_chinese_paras[j].p
        /\ DocsSplices =>
            LET paragraphs == Desc(d_tree, "p")
            IN \A q \in 1..d_locals'.para :
                   ~Contains(DocsParaText(d_tree, paragraphs[q]), d_locals'.c_text) ]_vars

\* The run at path of paragraph p is under a marker of this tag: the marker
\* wraps the run, or stands in the run around its text.
UnderMarker(p, path, tag) ==
    \/ \E k \in 1..(Len(path) - 1) : At(p, SubSeq(path, 1, k)).tag = tag
    \/ Desc(At(p, path), tag) # <<>>

\* The text of the runs of p that are not under a marker of this tag, in
\* document order, deleted text included.
TextOutside(p, tag) ==
    LET runs == Desc(p, "r")
    IN Concat([j \in 1..Len(runs) |->
                 IF UnderMarker(p, runs[j], tag) THEN <<>>
                 ELSE TextOf(At(p, runs[j]), "t") \o TextOf(At(p, runs[j]), "delText")])

\* C16: the contexts of a record are those of its paragraph: original_context
\* the text of the runs not under an insertion marker, current_context the
\* text of the runs not under a deletion marker (both trimmed, as the
\* extractor trims them).
C16_ContextReconstruction ==
    \A i \in 1..Len(extracted) : \A j \in 1..Len(extracted[i]) :
        LET root == ReadDocumentXml(english)
            record == extracted[i][j]
            p == At(root, BodyParagraphs(root)[record.paragraph_index + 1])
        IN /\ record.original_context = Strip(TextOutside(p, "ins"))
           /\ record.current_context = Strip(TextOutside(p, "del"))

\* The markers of the body paragraphs of root whose wrapped text is not empty
\* after trimming, as (paragraph index, type, path in the paragraph).
TextMarkers(root) ==
    LET ps == BodyParagraphs(root)
        of(i, kind, tag, text_tag) ==
            {[paragraph_index |-> i - 1, type |-> kind, element |-> m] :
               m \in {x \in {Desc(At(root, ps[i]), tag)[k] :
                               k \in 1..Len(Desc(At(root, ps[i]), tag))} :
                        Strip(TextOf(At(At(root, ps[i]), x), text_tag)) # <<>>}}
    IN UNION {of(i, "insertion", "ins", "t") \cup of(i, "deletion", "del", "delText") :
              i \in 1..Len(ps)}

\* C17: an extraction yields one record for each insertion or deletion marker
\* whose trimmed text is not empty, whatever else its paragraph holds, and no
\* other record; the text of every record is not empty.
C17_ExtractionComplete ==
    \A i \in 1..Len(extracted) :
        LET records == extracted[i]
            marked == {[paragraph_index |-> records[j].paragraph_index,
                        type |-> records[j].type,
                        element |-> records[j].element] : j \in 1..Len(records)}
        IN /\ marked = TextMarkers(ReadDocumentXml(english))
           /\ Cardinality(marked) = Len(records)
           /\ \A j \in 1..Len(records) : records[j].text # <<>>

\* The runs a splice of docs.py makes for the locals l: the before run when
\* before_text is not empty, the marked run, the after run when after_text is
\* not empty; only tag and text are compared here.
SameText(e, tag, text) == e.tag = tag /\ TextOf(e, "t") = text

IsSpliced(new, l) ==
    LET b == NonEmpty(l.before_text)
    IN /\ Len(new) = 1 + b + NonEmpty(l.after_text)
       /\ b = 1 => SameText(new[1], "r", l.before_text)
       /\ new[1 + b].tag \in {"ins", "del"}
       /\ TextOf(new[1 + b], "t") = l.changed_text
       /\ l.after_text # <<>> => SameText(new[2 + b], "r", l.after_text)

\* C18: a splice of docs.py puts the before run, the marked run and the
\* after run, in that order and next to each other, where the removed runs
\* stood among the children of their parent: the children before the first
\* removed run and those after the last are where they were, unchanged (for
\* a text sought that is not empty).
C18_SplicePosition ==
    [][ DocsSplices /\ d_locals'.c_text # <<>> =>
          LET paragraphs == Desc(d_tree, "p")
              path == paragraphs[d_locals'.para + 1]
              p == At(d_tree, path)
              runs == Desc(p, "r")
              lo == runs[d_locals'.start_run_idx + 1]
              hi == runs[d_locals'.end_run_idx + 1]
              old == At(p, ParentPath(lo)).kids
              new == At(At(d_tree', path), ParentPath(lo)).kids
              head == lo[Len(lo)] - 1
              tail == Len(old) - hi[Len(hi)]
          IN /\ Len(new) >= head + tail + 1
             /\ SubSeq(new, 1, head) = SubSeq(old, 1, head)
             /\ SubSeq(new, Len(new) - tail + 1, Len(new))
                    = SubSeq(old, Len(old) - tail + 1, Len(old))
             /\ IsSpliced(SubSeq(new, head + 1, Len(new) - tail), d_locals') ]_vars

\* The formatting payload of a run: its children other than its text.
Payload(run) == SelectSeq(run.kids, LAMBDA x : x.tag # "t")

\* Paragraph p holds a run of this live text with the payload of run orig,
\* flagged xml:space="preserve" when the text begins or ends with whitespace.
CarriesFormat(p, text, orig) ==
    \E j \in 1..Len(Desc(p, "r")) :
        LET run == At(p, Desc(p, "r")[j])
        IN /\ TextOf(run, "t") = text
           /\ Payload(run) = Payload(orig)
           /\ Strip(text) # text =>
                \A k \in 1..Len(Desc(run, "t")) :
                    At(run, Desc(run, "t")[k]).a.space = "preserve"

\* The step is an insertion of docx_processor.py that returned.
Inserts == pc = "apply" /\ change.type = "insertion" /\ last'.returns

\* C19: a before run carries the formatting payload of the start run and an
\* after run that of the end run, with the preserve-whitespace flag when its
\* text begins or ends with whitespace: in a splice of docs.py, in a deletion
\* and in an insertion of docx_processor.py that splits a run.
C19_FormattingPropagated ==
    [][ /\ DocsSplices /\ d_locals'.c_text # <<>> =>
            LET path == Desc(d_tree, "p")[d_locals'.para + 1]
                p == At(d_tree, path)
                runs == Desc(p, "r")
                after == At(d_tree', path)
            IN /\ d_locals'.before_text # <<>> =>
                    CarriesFormat(after, d_locals'.before_text,
                                  At(p, runs[d_locals'.start_run_idx + 1]))
               /\ d_locals'.after_text # <<>> =>
                    CarriesFormat(after, d_locals'.after_text,
                                  At(p, runs[d_locals'.end_run_idx + 1]))
        /\ Deletes /\ DeleteSpan # <<>> =>
            LET span == DeleteSpan
                first == span[1]
                final == span[Len(span)]
                before_text == SliceTo(first.text, first.delete_start_in_run)
                after_text == SliceFrom(final.text, final.delete_end_in_run)
            IN /\ before_text # <<>> =>
                    CarriesFormat(last'.after, before_text, At(target_para, first.element))
               /\ after_text # <<>> =>
                    CarriesFormat(last'.after, after_text, At(target_para, final.element))
        /\ Inserts =>
            LET runs == Children(target_para, "r")
                run_texts == [j \in 1..Len(runs) |-> TextOf(At(target_para, runs[j]), "t")]
                found == find_target_run(run_texts, last'.position, 0, 0)
            IN (/\ found.target_run_index # None
                /\ 0 < found.offset_in_run
                /\ found.offset_in_run < Len(run_texts[found.target_run_index + 1])) =>
                 LET target_run == At(target_para, runs[found.target_run_index + 1])
                     run_text == run_texts[found.target_run_index + 1]
                 IN /\ CarriesFormat(last'.after, SliceTo(run_text, found.offset_in_run),
                                     target_run)
                    /\ CarriesFormat(last'.after, SliceFrom(run_text, found.offset_in_run),
                                     target_run) ]_vars

\* -------------------------------------------- _apply_insertion_change by itself
\* Sources with one insertion, its attributes present or defaulted.
InsertSources ==
    { Document(<<SourceParagraph(<<TextRun("t", <<"a">>), InsMarker(a, <<"b">>)>>)>>) :
      a \in {FullAttrs, NoAttrs} }

\* Targets of one paragraph, with or without a <w:pPr>: every text within the
\* bound cut every way into runs, the paragraph without runs among them; and
\* paragraphs with a run of two <w:t>.
InsertTargets ==
    { Document(<<Paragraph(pp, texts)>>) : pp \in BOOLEAN, texts \in RunTextLists }
    \cup { Document(<<p>>) : p \in BrokenParagraphs(TRUE) \cup BrokenParagraphs(FALSE) }

\* _apply_insertion_change is about to be called on a paragraph, with the text
\* of the paragraph as chinese_text and an insertion record as change.
InsertInit ==
    /\ english \in {Docx(doc) : doc \in InsertSources}
    /\ chinese \in {Docx(doc) : doc \in InsertTargets}
    /\ changes = extract_changes_from_english_docx(
                     english, [k \in 1..MaxSourceKids |-> 1],
                     [k \in 1..MaxSourceKids |-> "u1"])
    /\ chinese_root = ReadDocumentXml(chinese)
    /\ all_chinese_paras = chinese_paras_of(chinese_root)
    /\ changes_by_para = changes_by_para_of(changes)
    /\ g = 1
    /\ c = 1
    /\ target_para_element = BodyParagraphs(chinese_root)[1]
    /\ chinese_text = get_paragraph_text(At(chinese_root, target_para_element))
    /\ successful_changes = 0
    /\ failed_changes = 0
    /\ status = <<>>
    /\ llm_calls = 0
    /\ last = NoChange
    /\ extracted = <<>>
    /\ output = NoFile
    /\ now = 1
    /\ pc = "insert"
    /\ DocsOff

\* Lines 228-298: one call of _apply_insertion_change; the position prompt
\* raises, or answers with a number or with none.
InsertCall ==
    /\ pc = "insert"
    /\ \E text_to_insert \in Translations,
          raises \in BOOLEAN,
          number \in {None} \cup 0..(Len(chinese_text) + 1) :
         LET position == position_of(chinese_text, raises, number)
             done == apply_insertion_change(target_para, text_to_insert,
                                            position, change)
         IN /\ chinese_root' = ReplaceAt(chinese_root, target_para_element, done)
            /\ last' = [LocalsOf(change, target_para, chinese_text) EXCEPT
                          !.returns = TRUE, !.after = done, !.answered = TRUE,
                          !.answer = text_to_insert, !.position = position]
    /\ llm_calls' = llm_calls + 1
    /\ pc' = "inserted"
    /\ UNCHANGED <<english, chinese, output, now, changes, all_chinese_paras,
                   changes_by_para, g, c, chinese_text, target_para_element,
                   successful_changes, failed_changes, status, extracted, d_vars>>

SpecInsert == InsertInit /\ [][InsertCall]_vars

\* The runs among the children of paragraph p that hold an insertion marker.
InsertionRuns(p) ==
    SelectSeq(Elements(p, Children(p, "r")), LAMBDA e : Desc(e, "ins") # <<>>)

\* C20: _apply_insertion_change on a paragraph whose run text T is the text
\* passed in leaves the run text T[0..p) + inserted text + T[p..), p the
\* position clamped to 0..len(T); one run wrapped in an insertion marker was
\* added, the marker carrying the author, date and identifier of the record;
\* in a paragraph without runs it is the only run.
C20_InsertionPlaced ==
    (Inserted /\ KidsText(last.before.kids, "t") = last.chinese_text) =>
        LET T == last.chinese_text
            before_runs == Children(last.before, "r")
            marked == InsertionRuns(last.after)
        IN /\ last.position \in 0..Len(T)
           /\ KidsText(last.after.kids, "t")
                  = SliceTo(T, last.position) \o last.answer \o SliceFrom(T, last.position)
           /\ Len(marked) = Len(InsertionRuns(last.before)) + 1
           /\ \E k \in 1..Len(marked) :
                /\ marked[k] = create_track_changes_element(
                                   "insertion", last.answer, last.author, last.date,
                                   last.change_id)
                /\ \A j \in 1..Len(marked) :
                     j # k => \E i \in 1..Len(before_runs) :
                                 At(last.before, before_runs[i]) = marked[j]
           /\ before_runs = <<>> =>
                Elements(last.after, Desc(last.after, "r")) = marked

\* "x" was inserted in the middle of the only run, "ab", of a paragraph, for
\* a record whose author was defaulted.
C20_Witness ==
    /\ Inserted
    /\ last.answer = <<"x">>
    /\ last.author = "Unknown"
    /\ KidsText(last.before.kids, "t") = <<"a", "b">>
    /\ last.position = 1
    /\ Len(Children(last.before, "r")) = 1
    /\ Len(Children(last.after, "r")) = 3

\* C21: for a needle that is not empty and occurs in the text of the runs
\* (empty runs among them or not), the loop of lines 107-120 leaves with a
\* start run and an end run found: the fallback of lines 123-125 is not
\* taken and start_run_idx is not None.
C21_FallbackUnreachable ==
    (d_locals.outcome \in {"applied", "raised"} /\ d_locals.c_text # <<>>) =>
        /\ ~d_locals.fallback
        /\ d_locals.start_run_idx # None
        /\ d_locals.end_run_idx # None
        /\ d_locals.start_run_idx <= d_locals.end_run_idx

\* A needle of two characters was found across an empty run, ending where the
\* last run ends.
C21_Witness ==
    /\ d_locals.outcome = "applied"
    /\ Len(d_locals.c_text) = 2
    /\ Len(d_locals.run_texts) = 3
    /\ d_locals.run_texts[2] = <<>>
    /\ d_locals.start_run_idx = 0
    /\ d_locals.end_run_idx = 2
    /\ d_locals.end_offset = Len(d_locals.run_texts[3])
    /\ ~d_locals.fallback

====
